---- MODULE Spec2Model ----
(***************************************************************************)
(* Model of the streaming state machine of src/src/ice_stream/icestream.py *)
(* : the three-slot transaction log (StreamingState), its recovery routine *)
(* initialize_and_validate_paths, and the Streaming driver that discovers  *)
(* a time window, pulls slices, aligns them to chunks, appends to or       *)
(* creates remote targets and completes the transaction.                   *)
(*                                                                         *)
(* Time is counted in ticks of the minimal time unit; the source holds one *)
(* record per tick.  A target name embeds the first timestamp of the slice *)
(* that created it and is modelled as the one-element tuple <<first>>; the *)
(* empty string '' is the empty tuple.                                     *)
(***************************************************************************)
EXTENDS Integers, Sequences, FiniteSets, TLC

\* ---------------------------------------------------------------- constants
\* chunk size along the primary time dimension (timestamp.size % 100)
ChunkSize == 100
\* @retry(stop=stop_after_attempt(3))
MaxAttempts == 3
\* default_streaming_settings
streaming_minutes == 30
streaming_days_per_file == 1

\* ------------------------------------------------------------------- bounds
\* records (ticks) the source produces per minute
RecordsPerMinute == 4
\* the wall clock advances by AdvanceUnit ticks from one run to the next
AdvanceUnit == 2450
\* number of runs of the ingester
MaxRuns == 4
\* number of times the process is killed or hits a read or write fault
MaxCrashes == 1
\* the tick at which the source's significant attributes change
SettingsChangeAt == 5050
\* number of mutation calls a client of StreamingState makes
MaxOps == 1

DayLen == 24 * 60 * RecordsPerMinute
Margin == streaming_minutes * RecordsPerMinute

Empty == <<>>
NoHint == -1
NoTime == -1

\* ------------------------------------------------------------------- state
VARIABLES
    log,         \* streaming_state.yaml: the persisted _state_data
    store,       \* remote main targets: name -> object
    hires,       \* remote '<target>_high_res' siblings: name -> segments
    setup,       \* the setup side-dataset of the project folder
    pc,          \* position of the (single) ingester process
    now,         \* wall clock (pd.Timestamp.now())
    since_hint, until_hint, since, until,
    last_url, last_ds, source_ds, target_url,
    local_paths, \* the slices of the current window still to be processed
    streamed,    \* number of entries of streamed_paths
    attempt,     \* tenacity's attempt number inside delete_data
    result,      \* what initialize_and_validate_paths returned
    env,         \* the environment: "any", "e2e" (the end-to-end scenario)
                 \* or "log" (a client of StreamingState alone)
    hist         \* history (ghost) record used to state the properties

vars == <<log, store, hires, setup, pc, now, since_hint, until_hint, since,
          until, last_url, last_ds, source_ds, target_url, local_paths,
          streamed, attempt, result, env, hist>>

driverVars == <<since_hint, until_hint, since, until, last_url, last_ds,
                source_ds, target_url, local_paths, streamed>>

\* --------------------------------------------------------- remote objects
\* a readable dataset: its timestamp segments <<first, last>> in write order
Obj(segs, attr) == [kind |-> "ok", segs |-> segs, attr |-> attr]
\* an object that exists in the listing but opens as "not found"
Void == [kind |-> "void", segs |-> <<>>, attr |-> <<>>]
\* an object whose open raises an error other than FileNotFoundError
Broken == [kind |-> "broken", segs |-> <<>>, attr |-> <<>>]

None == [kind |-> "none"]
Raise == [kind |-> "raise"]
Dataset(first, last, attr) ==
    [kind |-> "ds", first |-> first, last |-> last, attr |-> attr]

Exists(st, url) == url \in DOMAIN st
Remove(st, url) == [u \in (DOMAIN st) \ {url} |-> st[u]]
Put(st, url, o) == [u \in (DOMAIN st) \cup {url} |-> IF u = url THEN o ELSE st[u]]

load_validate_target_path(url, st) ==
    IF url = Empty THEN None
    ELSE IF ~Exists(st, url) THEN None
    ELSE IF st[url].kind = "broken" THEN Raise
    ELSE IF st[url].kind = "void" THEN None
    ELSE Dataset(st[url].segs[1][1],
                 st[url].segs[Len(st[url].segs)][2], st[url].attr)

\* ------------------------------------------------------- the transaction log
State(l, p, i) ==
    [last_valid_target |-> l, penultimate_valid_target |-> p,
     incomplete_target |-> i]

\* _state_data[key] = value: the key is added when the dict lacks it
setitem(d, key, value) ==
    [k \in DOMAIN d \cup {key} |-> IF k = key THEN value ELSE d[k]]

on_deleted(s) == setitem(s, "incomplete_target", Empty)

\* an intent that points last_valid_target at the target being created
on_new_transaction_clobber(s, file_path) ==
    [s EXCEPT !.penultimate_valid_target = s.last_valid_target,
              !.last_valid_target = file_path,
              !.incomplete_target = file_path]

\* an intent that already promotes the target being created
on_new_transaction_promoting(s, file_path) ==
    setitem(setitem(setitem(s, "penultimate_valid_target", s.last_valid_target),
                    "last_valid_target", file_path),
            "incomplete_target", file_path)

on_new_transaction(s, file_path) ==
    setitem(setitem(s, "penultimate_valid_target", s.last_valid_target),
            "incomplete_target", file_path)

on_append_transaction(s) ==
    setitem(setitem(s, "incomplete_target", s.last_valid_target),
            "last_valid_target", s.penultimate_valid_target)

\* a completion that forgets to clear incomplete_target
on_complete_transaction_dirty(s) ==
    [s EXCEPT !.last_valid_target = s.incomplete_target]

\* a completion that also forgets the penultimate target
on_complete_transaction_forgetful(s) ==
    setitem(setitem(setitem(s, "last_valid_target", s.incomplete_target),
                    "incomplete_target", Empty),
            "penultimate_valid_target", Empty)

\* the state on_complete_transaction persists before it re-reads the target
on_complete_transaction(s) ==
    setitem(setitem(s, "last_valid_target", s.incomplete_target),
            "incomplete_target", Empty)

\* ------------------------------------------------------------------ helpers
Min(a, b) == IF a <= b THEN a ELSE b

NoResult == [available |-> FALSE, pointer |-> Empty, ds |-> Raise]
Result(a, p, d) == [available |-> a, pointer |-> p, ds |-> d]

EmptyStore == [u \in {} |-> Void]
EmptyHires == [u \in {} |-> <<>>]

\* a listing that never returns a candidate
get_cloud_files_blind(st) == {}

\* get_cloud_files(target_root): the main targets the store lists
get_cloud_files(st) == DOMAIN st

\* sorted(...)[-1]: the name with the greatest timestamp token
Latest(urls) == CHOOSE u \in urls : \A v \in urls : v[1] <= u[1]

\* what the ingester process holds in memory when it is not running
Volatile ==
    /\ since_hint' = NoHint /\ until_hint' = NoHint
    /\ since' = NoTime /\ until' = NoTime
    /\ last_url' = Empty /\ last_ds' = None /\ source_ds' = None
    /\ target_url' = Empty /\ local_paths' = <<>> /\ streamed' = FALSE
    /\ attempt' = 0 /\ result' = NoResult

\* an error that is logged and ignored: the process stays where it is
ExitIgnored(h, why) ==
    /\ pc' = pc
    /\ hist' = [h EXCEPT !.exit = why, !.exitPc = pc]
    /\ UNCHANGED <<driverVars, attempt, result>>

\* an exception leaves the process ("raise"), or the process is killed
Exit(h, why) ==
    /\ pc' = "down"
    /\ Volatile
    /\ hist' = [h EXCEPT !.exit = why, !.exitPc = pc,
                         !.crashes = Min(@ + 1, MaxCrashes)]

\* the outcomes of a remote read or listing: FALSE works, TRUE is a
\* connection or authentication failure
Faults == IF env \notin {"e2e", "live"} /\ hist.crashes < MaxCrashes
          THEN BOOLEAN ELSE {FALSE}
\* the same for one fs.rm call
DeleteFaults == IF env \notin {"e2e", "live"} THEN BOOLEAN ELSE {FALSE}

\* --------------------------------------- initialize_and_validate_paths
\* entry of initialize_and_validate_paths
RecBegin ==
    /\ pc' = IF log.incomplete_target # Empty THEN "rec_delete" ELSE "rec_pen"
    /\ attempt' = 1
    /\ result' = NoResult
    /\ hist' = [hist EXCEPT !.rec0 = log, !.store0 = store, !.recOp = hist.lastOp,
                            !.recPre = hist.pre,
                            !.delTries = 0, !.delFaults = 0,
                            !.delOutcome = "none", !.prev = hist.lastRes,
                            !.lastRes = NoResult, !.exit = "none",
                            !.exitPc = "none"]

\* a handler that treats the exhausted retries as fatal
AfterRetryErrorRaises(h) == Exit(h, "raise") /\ UNCHANGED log

\* except (FileNotFoundError, RetryError): ... self.on_deleted()
AfterRetryError(h) ==
    /\ log' = on_deleted(log)
    /\ pc' = "rec_pen"
    /\ hist' = [h EXCEPT !.lastOp = "deleted"]
    /\ UNCHANGED <<attempt, result, driverVars>>

\* one attempt of delete_data under @retry(stop=stop_after_attempt(3)), and
\* the except clauses around it
DeleteAttempt ==
    /\ pc = "rec_delete"
    /\ LET t == log.incomplete_target IN
       \E fault \in DeleteFaults, hfault \in DeleteFaults :
          IF ~fault /\ Exists(store, t)
          THEN \* fs.rm succeeded; the high_res removal may fail silently
               /\ hfault => Exists(hires, t)
               /\ store' = Remove(store, t)
               /\ hires' = IF hfault THEN hires ELSE Remove(hires, t)
               /\ log' = on_deleted(log)
               /\ pc' = "rec_pen"
               /\ hist' = [hist EXCEPT !.lastOp = "deleted", !.delOutcome = "ok",
                                       !.delTries = @ + 1]
               /\ UNCHANGED <<attempt, result, driverVars>>
          ELSE /\ ~hfault
               /\ UNCHANGED <<store, hires>>
               /\ LET h == [hist EXCEPT
                              !.delTries = @ + 1,
                              !.delFaults = IF fault THEN @ + 1 ELSE @,
                              !.delOutcome = IF fault THEN "fault" ELSE "notfound"]
                  IN IF attempt < MaxAttempts
                     THEN /\ attempt' = attempt + 1
                          /\ hist' = h
                          /\ UNCHANGED <<log, pc, result, driverVars>>
                     ELSE AfterRetryError(h)
    /\ UNCHANGED <<setup, now, env>>

\* if self._state_data['penultimate_valid_target'] != '': ...
ValidatePenultimate ==
    /\ pc = "rec_pen"
    /\ \E fault \in Faults :
         LET ds == IF fault THEN Raise
                   ELSE load_validate_target_path(log.penultimate_valid_target, store)
         IN IF log.penultimate_valid_target = Empty
            THEN /\ ~fault
                 /\ pc' = "rec_last"
                 /\ UNCHANGED <<log, hist, attempt, result, driverVars>>
            ELSE IF ds = Raise
            THEN Exit(hist, "raise") /\ UNCHANGED log
            ELSE /\ log' = IF ds = None THEN [log EXCEPT !.incomplete_target = Empty]
                           ELSE log
                 /\ hist' = IF ds = None THEN [hist EXCEPT !.lastOp = "soft"]
                            ELSE hist
                 /\ pc' = "rec_last"
                 /\ UNCHANGED <<attempt, result, driverVars>>
    /\ UNCHANGED <<store, hires, setup, now, env>>

\* the normal return of initialize_and_validate_paths
Return(r, op) ==
    /\ result' = r
    /\ pc' = "discover"
    /\ hist' = [hist EXCEPT !.lastRes = r, !.lastOp = IF op = "" THEN @ ELSE op]
    /\ UNCHANGED <<attempt, driverVars>>

\* ds = load_validate_target_path(self._state_data['last_valid_target'])
ValidateLast ==
    /\ pc = "rec_last"
    /\ \E fault \in Faults :
         LET ds == IF fault THEN Raise
                   ELSE load_validate_target_path(log.last_valid_target, store)
         IN IF ds = Raise
            THEN Exit(hist, "raise")
            ELSE IF ds = None
            THEN /\ pc' = "rec_list"
                 /\ UNCHANGED <<hist, attempt, result, driverVars>>
            ELSE Return(Result(TRUE, log.last_valid_target, ds), "")
    /\ UNCHANGED <<log, store, hires, setup, now, env>>

\* the listing fallback up to the save_state that persists the correction
ListFallback ==
    /\ pc = "rec_list"
    /\ \E fault \in Faults :
         LET urls == get_cloud_files(store) IN
         IF fault
         THEN Exit(hist, "raise") /\ UNCHANGED log
         ELSE IF urls # {}
         THEN /\ log' = [log EXCEPT !.last_valid_target = Latest(urls)]
              /\ pc' = "rec_adopted"
              /\ hist' = [hist EXCEPT !.lastOp = "adopt"]
              /\ UNCHANGED <<attempt, result, driverVars>>
         ELSE /\ log' = [log EXCEPT !.last_valid_target = Empty]
              /\ Return(Result(FALSE, Empty, None), "cold")
    /\ UNCHANGED <<store, hires, setup, now, env>>

\* a fallback that reports the pointer it read before the correction
ReturnAdoptedStale(ds) ==
    Return(Result(TRUE, hist.rec0.last_valid_target, ds), "")

\* return True, (self._state_data['last_valid_target'], ds)
ReturnAdopted(ds) == Return(Result(TRUE, log.last_valid_target, ds), "")

\* ds = load_validate_target_path(last_valid_target) on the fallback path
LoadAdopted ==
    /\ pc = "rec_adopted"
    /\ \E fault \in Faults :
         LET ds == IF fault THEN Raise
                   ELSE load_validate_target_path(log.last_valid_target, store)
         IN IF ds = Raise THEN Exit(hist, "raise") ELSE ReturnAdopted(ds)
    /\ UNCHANGED <<log, store, hires, setup, now, env>>

\* ------------------------------------------------------------- the source
\* from clads.clads_service.backup import significant_keys
significant_keys == {"instrument", "settings_id"}

\* the attributes of the records produced at t: one instrument, and a
\* settings id that changes at SettingsChangeAt
Setting(t) ==
    [k \in significant_keys |->
        IF k = "settings_id" THEN (IF t < SettingsChangeAt THEN "1" ELSE "2")
        ELSE "A"]

Slice(first, last, attr) == [first |-> first, last |-> last, attr |-> attr]
Size(sl) == sl.last - sl.first + 1

\* backup.to_file(tmpdirname, since=..., until=...): the external provider
\* returns one local slice per run of equal significant attributes among the
\* records of [since, until) the source holds
to_file(s, u, clock) ==
    LET e == Min(u, clock) IN
    IF s = NoTime \/ s >= e THEN <<>>
    ELSE IF s < SettingsChangeAt /\ SettingsChangeAt < e
    THEN << Slice(s, SettingsChangeAt - 1, Setting(s)),
            Slice(SettingsChangeAt, e - 1, Setting(SettingsChangeAt)) >>
    ELSE << Slice(s, e - 1, Setting(s)) >>

\* ------------------------------------------------------------- the driver
Midnight(t) == (t \div DayLen) * DayLen

\* an until that ignores the until hint
update_until_unhinted(s, clock, hint) ==
    Min(Midnight(s) + streaming_days_per_file * DayLen + Margin, clock)

\* _update_until: min(cutoff, pd.Timestamp.now(), self.until_hint)
update_until(s, clock, hint) ==
    Min(Min(Midnight(s) + streaming_days_per_file * DayLen + Margin, clock), hint)

\* a trim that drops the leading remainder instead of the trailing one
align_leading(sl) ==
    IF Size(sl) % ChunkSize # 0
    THEN [sl EXCEPT !.first = sl.first + (Size(sl) % ChunkSize)]
    ELSE sl

\* source_ds.isel(timestamp=slice(None, -(size % 100))) when size % 100 != 0
align(sl) ==
    IF Size(sl) % ChunkSize # 0
    THEN [sl EXCEPT !.last = sl.last - (Size(sl) % ChunkSize)]
    ELSE sl

\* an attribute value whose != has no truth value (an array): the comparison
\* raises, which is_appendable catches
Ambiguous == "array"
Raises(a, b) == a = Ambiguous \/ b = Ambiguous

\* a classifier that takes a key it cannot read or compare as matching
is_appendable_open(ds1, ds2, keys) ==
    IF ds1 = None \/ ds2 = None THEN FALSE
    ELSE \A k \in keys :
            (k \in DOMAIN ds1.attr /\ k \in DOMAIN ds2.attr
               /\ ~Raises(ds1.attr[k], ds2.attr[k]))
            => ds1.attr[k] = ds2.attr[k]

is_appendable(ds1, ds2, keys) ==
    IF ds1 = None \/ ds2 = None THEN FALSE
    ELSE \A k \in keys :
            /\ k \in DOMAIN ds1.attr /\ k \in DOMAIN ds2.attr
            /\ ~Raises(ds1.attr[k], ds2.attr[k])
            /\ ds1.attr[k] = ds2.attr[k]

\* a test that counts max_timedelta from the first timestamp itself
is_within_timeframe_unaligned(ds1, ds2, max_timedelta) ==
    IF ds1 = None \/ ds2 = None THEN FALSE
    ELSE ~(ds2.first > ds1.first + max_timedelta)

is_within_timeframe(ds1, ds2, max_timedelta) ==
    IF ds1 = None \/ ds2 = None THEN FALSE
    ELSE ~(ds2.first > Midnight(ds1.first) + max_timedelta)

\* the relative path of the local slice under the target root
TargetOf(sl) == << sl.first >>

\* zappend([path], config): creates the target or appends to it
zappend(st, url, ds) ==
    IF Exists(st, url)
    THEN Put(st, url, [st[url] EXCEPT !.segs = Append(@, <<ds.first, ds.last>>)])
    ELSE Put(st, url, Obj(<< <<ds.first, ds.last>> >>, ds.attr))

\* the since hints a caller passes
Hints == IF env = "e2e" THEN {NoHint} ELSE {NoHint, DayLen + ChunkSize}

\* the until hints a caller passes
UntilHints == IF env = "e2e" THEN {NoHint} ELSE {NoHint, DayLen}

\* Streaming.__init__ and the first statements of stream()
Start ==
    /\ pc \in {"down", "done"}
    /\ now \div AdvanceUnit < MaxRuns
    /\ now' = now + AdvanceUnit
    /\ \E hint \in Hints : since_hint' = hint
    /\ \E hint \in UntilHints : until_hint' = hint
    /\ since' = NoTime /\ until' = NoTime
    /\ last_url' = Empty /\ last_ds' = None /\ source_ds' = None
    /\ target_url' = Empty /\ local_paths' = <<>> /\ streamed' = FALSE
    /\ RecBegin
    /\ UNCHANGED <<log, store, hires, setup, env>>

\* a since that follows the hint wherever it points
discover_since_hinted(t, hint) == IF hint # NoHint THEN hint ELSE t + 1

\* since = last timestamp + 1 ms, or the hint when it is later
discover_since(t, hint) ==
    IF hint # NoHint /\ hint > t + 1 THEN hint ELSE t + 1

\* a cold start that ignores the hint
cold_since_today(hint, clock) == Midnight(clock)

\* since on a cold start: the hint, or today at 00:00:00
cold_since(hint, clock) == IF hint = NoHint THEN Midnight(clock) ELSE hint

\* _discover_timeframe after initialize_and_validate_paths returned
Discover ==
    /\ pc = "discover"
    /\ LET uh == IF until_hint = NoHint THEN now ELSE until_hint IN
       IF ~result.available
       THEN LET s == cold_since(since_hint, now) IN
            /\ since' = s
            /\ until' = update_until(s, now, uh)
            /\ until_hint' = uh
            /\ pc' = "stream"
            /\ UNCHANGED <<since_hint, last_url, last_ds, source_ds, target_url,
                           local_paths, streamed, attempt, result, hist>>
       ELSE IF result.ds = None
       THEN \* self.last_ds.timestamp on None raises
            Exit(hist, "raise")
       ELSE LET s == discover_since(result.ds.last, since_hint) IN
            /\ last_url' = result.pointer
            /\ last_ds' = result.ds
            /\ since' = s
            /\ until' = update_until(s, now, uh)
            /\ until_hint' = uh
            /\ pc' = "stream"
            /\ UNCHANGED <<since_hint, source_ds, target_url, local_paths,
                           streamed, attempt, result, hist>>
    /\ UNCHANGED <<log, store, hires, setup, now, env>>

\* local_paths = self.backup.to_file(tmpdirname, since, until)
Fetch ==
    /\ pc = "stream"
    /\ local_paths' = to_file(since, until, now)
    /\ pc' = "slice"
    /\ UNCHANGED <<log, store, hires, setup, now, since_hint, until_hint, since,
                   until, last_url, last_ds, source_ds, target_url, streamed,
                   attempt, result, env, hist>>

\* a skip that still takes the emptied slice as self.source_ds
DropSmallAssigned ==
    /\ pc = "slice" /\ local_paths # <<>>
    /\ Size(align(Head(local_paths))) = 0
    /\ local_paths' = Tail(local_paths)
    /\ source_ds' = LET sl == align(Head(local_paths))
                  IN Dataset(sl.first, sl.last, sl.attr)
    /\ UNCHANGED <<log, store, hires, setup, pc, now, since_hint, until_hint,
                   since, until, last_url, last_ds, target_url,
                   streamed, attempt, result, env, hist>>

\* if source_ds.timestamp.size == 0: continue
DropSmall ==
    /\ pc = "slice" /\ local_paths # <<>>
    /\ Size(align(Head(local_paths))) = 0
    /\ local_paths' = Tail(local_paths)
    /\ UNCHANGED <<log, store, hires, setup, pc, now, since_hint, until_hint,
                   since, until, last_url, last_ds, source_ds, target_url,
                   streamed, attempt, result, env, hist>>

AsDataset(sl) == Dataset(sl.first, sl.last, sl.attr)

\* a decision that looks at the significant attributes only
AppendableAnyTime(sl) ==
    is_appendable(last_ds, AsDataset(sl), significant_keys)

Appendable(sl) ==
    /\ is_appendable(last_ds, AsDataset(sl), significant_keys)
    /\ is_within_timeframe(last_ds, AsDataset(sl), streaming_days_per_file * DayLen)

\* the branch "if is_appendable and is_within_timeframe" up to the intent
BeginAppend ==
    /\ pc = "slice" /\ local_paths # <<>>
    /\ LET sl == align(Head(local_paths)) IN
         /\ Size(sl) # 0
         /\ Appendable(sl)
         /\ source_ds' = AsDataset(sl)
         /\ target_url' = last_url
         /\ hist' = [hist EXCEPT !.lastOp = "append", !.pre = log,
                                 !.lastRes = NoResult]
         /\ log' = on_append_transaction(log)
         /\ pc' = "write"
    /\ UNCHANGED <<store, hires, setup, now, since_hint, until_hint, since,
                   until, last_url, last_ds, local_paths, streamed, attempt,
                   result, env>>

\* the else branch up to the intent
BeginNew ==
    /\ pc = "slice" /\ local_paths # <<>>
    /\ LET sl == align(Head(local_paths)) IN
         /\ Size(sl) # 0
         /\ ~Appendable(sl)
         /\ source_ds' = AsDataset(sl)
         /\ target_url' = TargetOf(Head(local_paths))
         /\ hist' = [hist EXCEPT !.lastOp = "new", !.pre = log,
                                 !.lastRes = NoResult]
         /\ log' = on_new_transaction(log, TargetOf(Head(local_paths)))
         /\ pc' = "write"
    /\ UNCHANGED <<store, hires, setup, now, since_hint, until_hint, since,
                   until, last_url, last_ds, local_paths, streamed, attempt,
                   result, env>>

\* zappend([path], config, slice_source=...): an error it raises leaves _stream
WriteMain ==
    /\ pc = "write"
    /\ \E fault \in Faults :
         IF fault \/ (Exists(store, target_url) /\ store[target_url].kind # "ok")
         THEN Exit(hist, "raise") /\ UNCHANGED store
         ELSE /\ store' = zappend(store, target_url, source_ds)
              /\ pc' = "highres"
              /\ UNCHANGED <<driverVars, attempt, result, hist>>
    /\ UNCHANGED <<log, hires, setup, now, env>>

\* the process dies inside zappend: the target is left partly written
WritePartial ==
    /\ pc = "write"
    /\ env = "any" /\ hist.crashes < MaxCrashes
    /\ \E o \in {Void, Broken} : store' = Put(store, target_url, o)
    /\ Exit(hist, "crash")
    /\ UNCHANGED <<log, hires, setup, now, env>>

\* the samples along high_res_timestamp of self.source_ds: the cut to the
\* chunk size is along timestamp only, so they span the slice as fetched
high_res_seg(sl) == << sl.first, sl.last >>

\* a sibling written in create mode before any append is tried
AddHighResCreateFirst ==
    /\ pc = "highres"
    /\ hires' = Put(hires, target_url, << high_res_seg(Head(local_paths)) >>)
    /\ pc' = "setup"
    /\ hist' = [hist EXCEPT !.hrMode = "create", !.hrFailed = FALSE]
    /\ UNCHANGED <<driverVars, attempt, result>>
    /\ UNCHANGED <<log, store, setup, now, env>>

\* add_high_res: to_zarr(append_dim='high_res_timestamp', mode='a-') on the
\* sibling of the target; whatever it raises (the sibling does not exist yet,
\* or the remote call fails) is answered by to_zarr(mode='w'), which replaces
\* the sibling; an error of that second write leaves _stream
AddHighRes ==
    /\ pc = "highres"
    /\ \E afault \in Faults, cfault \in Faults :
         LET seg == high_res_seg(Head(local_paths))
             failed == afault \/ ~Exists(hires, target_url)
         IN /\ ~failed => ~cfault
            /\ IF ~failed
               THEN /\ hires' = Put(hires, target_url,
                                    hires[target_url] \o << seg >>)
                    /\ pc' = "setup"
                    /\ hist' = [hist EXCEPT !.hrMode = "append",
                                            !.hrFailed = FALSE]
                    /\ UNCHANGED <<driverVars, attempt, result>>
               ELSE IF cfault
               THEN /\ Exit([hist EXCEPT !.hrMode = "create",
                                         !.hrFailed = TRUE], "raise")
                    /\ UNCHANGED hires
               ELSE /\ hires' = Put(hires, target_url, << seg >>)
                    /\ pc' = "setup"
                    /\ hist' = [hist EXCEPT !.hrMode = "create",
                                            !.hrFailed = TRUE]
                    /\ UNCHANGED <<driverVars, attempt, result>>
    /\ UNCHANGED <<log, store, setup, now, env>>

\* the setup side-dataset of the project folder: absent, readable with a set
\* of entries, or left partly written (entries: those it held before the
\* write that was cut short)
NoSetup == [kind |-> "none", entries |-> {}]
SetupOf(E) == [kind |-> "ok", entries |-> E]
PartSetup(E) == [kind |-> "part", entries |-> E]

\* the entries of a slice along the dimensions 'retro' and 'settings_id'
setup_entries(ds) == { ds.attr["settings_id"] }

\* append_missing_setup_data_to_target(source_ds, last_setup_ds, setup_url):
\* the entries of the slice the side-dataset lacks are merged into it
append_missing_setup_data_to_target(ds, E) == E \cup setup_entries(ds)

\* maintain_project_setup: open_zarr and the merge sit in the try block; any
\* error they raise but FileNotFoundError is logged and ignored (except
\* Exception); FileNotFoundError (no side-dataset, or one left without its
\* metadata) leads to the creation with mode='w' inside the handler, whose
\* own error is caught by nothing and leaves _stream
MaintainSetup ==
    /\ pc = "setup"
    /\ \E rfault \in Faults, wfault \in Faults, notfound \in BOOLEAN :
         LET missing == setup.kind = "none" \/ (setup.kind = "part" /\ notfound)
             ignored == rfault \/ (setup.kind = "part" /\ ~notfound)
                               \/ (setup.kind = "ok" /\ wfault)
         IN /\ setup.kind # "part" => ~notfound
            /\ rfault => ~wfault
            /\ (setup.kind = "part" /\ ~notfound) => ~wfault
            /\ IF ignored
               THEN /\ pc' = "complete"
                    /\ UNCHANGED <<setup, driverVars, attempt, result, hist>>
               ELSE IF missing
               THEN IF wfault
                    THEN Exit(hist, "raise") /\ UNCHANGED setup
                    ELSE /\ setup' = SetupOf(setup_entries(source_ds))
                         /\ pc' = "complete"
                         /\ UNCHANGED <<driverVars, attempt, result, hist>>
               ELSE /\ setup' = SetupOf(append_missing_setup_data_to_target(
                                            source_ds, setup.entries))
                    /\ pc' = "complete"
                    /\ UNCHANGED <<driverVars, attempt, result, hist>>
    /\ UNCHANGED <<log, store, hires, now, env>>

\* the process dies inside the write of the setup side-dataset
SetupPartial ==
    /\ pc = "setup"
    /\ env = "any" /\ hist.crashes < MaxCrashes
    /\ setup' = PartSetup(setup.entries)
    /\ Exit(hist, "crash")
    /\ UNCHANGED <<log, store, hires, now, env>>

\* self.last_url, self.last_ds = self.streaming_state.on_complete_transaction()
Complete ==
    /\ pc = "complete"
    /\ log' = on_complete_transaction(log)
    /\ \E fault \in Faults :
         LET ds == IF fault THEN Raise
                   ELSE load_validate_target_path(log'.last_valid_target, store)
             h == [hist EXCEPT !.lastOp = "complete"]
         IN IF ds = Raise
            THEN Exit(h, "raise")
            ELSE /\ last_url' = log'.last_valid_target
                 /\ last_ds' = ds
                 /\ streamed' = TRUE
                 /\ local_paths' = Tail(local_paths)
                 /\ pc' = "slice"
                 /\ hist' = h
                 /\ UNCHANGED <<since_hint, until_hint, since, until, source_ds,
                                target_url, attempt, result>>
    /\ UNCHANGED <<store, hires, setup, now, env>>

\* a progress that skips to the next day whether or not a slice was written
ProgressSkipsDay ==
    /\ pc = "slice" /\ local_paths = <<>>
    /\ LET s == since + streaming_days_per_file * DayLen
           u == update_until(s, now, until_hint) IN
         /\ since' = s
         /\ until' = u
         /\ pc' = IF s >= u THEN "done" ELSE "stream"
    /\ streamed' = FALSE
    /\ target_url' = IF streamed THEN Empty ELSE target_url
    /\ UNCHANGED <<log, store, hires, setup, now, since_hint, until_hint,
                   last_url, last_ds, source_ds, local_paths, attempt, result,
                   env, hist>>

\* a progress that stays on the window when nothing was written
ProgressStalls ==
    /\ pc = "slice" /\ local_paths = <<>>
    /\ LET s == IF streamed THEN source_ds.last + 1 ELSE since
           u == update_until(s, now, until_hint) IN
         /\ since' = s
         /\ until' = u
         /\ pc' = IF s >= u THEN "done" ELSE "stream"
    /\ streamed' = FALSE
    /\ target_url' = IF streamed THEN Empty ELSE target_url
    /\ UNCHANGED <<log, store, hires, setup, now, since_hint, until_hint,
                   last_url, last_ds, source_ds, local_paths, attempt, result,
                   env, hist>>

\* _progress and the loop test of stream()
Progress ==
    /\ pc = "slice" /\ local_paths = <<>>
    /\ LET s == IF streamed THEN source_ds.last + 1
                ELSE since + streaming_days_per_file * DayLen
           u == update_until(s, now, until_hint) IN
         /\ since' = s
         /\ until' = u
         /\ pc' = IF s >= u THEN "done" ELSE "stream"
    /\ streamed' = FALSE
    /\ target_url' = IF streamed THEN Empty ELSE target_url
    /\ UNCHANGED <<log, store, hires, setup, now, since_hint, until_hint,
                   last_url, last_ds, source_ds, local_paths, attempt, result,
                   env, hist>>

\* the end-to-end scenario's crash: right after on_append_transaction on the
\* target the cold start created, once it has been appended to
ScenarioCrash ==
    /\ pc = "write" /\ hist.lastOp = "append" /\ hist.crashes = 0
    /\ hist.pre.penultimate_valid_target = Empty
    /\ Exists(store, target_url) /\ Len(store[target_url].segs) >= 2

\* the process is killed
Crash ==
    /\ pc \notin {"down", "done"}
    /\ hist.crashes < MaxCrashes
    /\ env = "e2e" => ScenarioCrash
    /\ Exit(hist, "crash")
    /\ UNCHANGED <<log, store, hires, setup, now, env>>

\* load_state on the file a save_state left truncated: yaml.safe_load(file)
\* or {} is empty and __init__ falls back to the default values
load_state_truncated == State(Empty, Empty, Empty)

\* the process is killed inside save_state, between open(path, 'w') and the
\* end of yaml.safe_dump, while the intent or the completion is being persisted
TornSave ==
    /\ env = "any" /\ hist.crashes < MaxCrashes
    /\ \/ pc = "complete"
       \/ /\ pc = "slice" /\ local_paths # <<>>
          /\ Size(align(Head(local_paths))) # 0
    /\ log' = load_state_truncated
    /\ Exit([hist EXCEPT !.lastOp = "torn", !.pre = log], "crash")
    /\ UNCHANGED <<store, hires, setup, now, env>>

\* ------------------------------------------------ a client of StreamingState
Names == { <<0>>, <<ChunkSize>>, <<ChunkSize + ChunkSize>> }

\* StreamingState(...) followed by initialize_and_validate_paths()
Construct ==
    /\ pc = "down"
    /\ RecBegin
    /\ UNCHANGED <<log, store, hires, setup, now, driverVars, env>>

\* initialize_and_validate_paths() called again
Recall ==
    /\ pc = "discover"
    /\ RecBegin
    /\ UNCHANGED <<log, store, hires, setup, now, driverVars, env>>

ApiNew ==
    /\ pc = "discover" /\ hist.ops < MaxOps
    /\ \E t \in Names : log' = on_new_transaction(log, t)
    /\ hist' = [hist EXCEPT !.lastOp = "new", !.pre = log, !.lastRes = NoResult,
                            !.ops = @ + 1]
    /\ UNCHANGED <<store, hires, setup, pc, now, driverVars, attempt, result, env>>

ApiAppend ==
    /\ pc = "discover" /\ hist.ops < MaxOps
    /\ log' = on_append_transaction(log)
    /\ hist' = [hist EXCEPT !.lastOp = "append", !.pre = log, !.lastRes = NoResult,
                            !.ops = @ + 1]
    /\ UNCHANGED <<store, hires, setup, pc, now, driverVars, attempt, result, env>>

ApiComplete ==
    /\ pc = "discover" /\ hist.ops < MaxOps
    /\ log' = on_complete_transaction(log)
    /\ LET ds == load_validate_target_path(log'.last_valid_target, store)
           h == [hist EXCEPT !.lastOp = "complete", !.lastRes = NoResult,
                            !.ops = @ + 1]
       IN IF ds = Raise THEN Exit(h, "raise")
          ELSE /\ hist' = h
               /\ UNCHANGED <<pc, driverVars, attempt, result>>
    /\ UNCHANGED <<store, hires, setup, now, env>>

\* ------------------------------------- the two classifiers called directly
\* the attribute values of the datasets handed to the classifiers
Values == { "A", "B", Ambiguous }

\* the attrs of a dataset: some of the keys may be missing
Attrs == UNION { [D -> Values] : D \in SUBSET significant_keys }

\* the first timestamps of the datasets handed to the classifiers: midnight,
\* later the same day, the next midnight, later the next day, two days and
\* half an hour later
Firsts == { 0, ChunkSize, DayLen, DayLen + ChunkSize \div 2,
            2 * DayLen + 30 * RecordsPerMinute }

Inputs == { None } \cup
          { Dataset(f, f + ChunkSize - 1, a) : f \in Firsts, a \in Attrs }

\* pd.Timedelta(days=...) values handed to is_within_timeframe
Spans == { DayLen, 2 * DayLen }

InitFn ==
    /\ log = State(Empty, Empty, Empty)
    /\ store = EmptyStore /\ hires = EmptyHires /\ setup = NoSetup
    /\ env = "fn" /\ now = 0 /\ pc = "down"
    /\ since_hint = NoHint /\ until_hint = NoHint
    /\ since = NoTime /\ until = NoTime
    /\ last_url = Empty /\ target_url = Empty
    /\ local_paths = <<>> /\ streamed = FALSE
    /\ attempt = 0 /\ result = NoResult
    /\ last_ds \in Inputs /\ source_ds \in Inputs
    /\ hist \in [keys : SUBSET significant_keys, max_timedelta : Spans,
                 called : {{}}, appendable : {FALSE}, within : {FALSE}]

\* Streaming.is_appendable(ds1, ds2, significant_keys)
CallIsAppendable ==
    /\ env = "fn" /\ "is_appendable" \notin hist.called
    /\ hist' = [hist EXCEPT
                  !.called = @ \cup {"is_appendable"},
                  !.appendable = is_appendable(last_ds, source_ds, hist.keys)]
    /\ UNCHANGED <<log, store, hires, setup, pc, now, driverVars, attempt,
                   result, env>>

\* Streaming.is_within_timeframe(ds1, ds2, max_timedelta)
CallIsWithinTimeframe ==
    /\ env = "fn" /\ "is_within_timeframe" \notin hist.called
    /\ hist' = [hist EXCEPT
                  !.called = @ \cup {"is_within_timeframe"},
                  !.within = is_within_timeframe(last_ds, source_ds,
                                                 hist.max_timedelta)]
    /\ UNCHANGED <<log, store, hires, setup, pc, now, driverVars, attempt,
                   result, env>>

NextFn ==
    \/ CallIsAppendable
    \/ CallIsWithinTimeframe

SpecFn == InitFn /\ [][NextFn]_vars

\* ------------------------------------------- one slice taken through _stream
\* the chunk size of the high-frequency data named by the module docstring
HighResChunkSize == 1000

\* the largest number of records of the slice handed to the alignment
MaxSize == 237

\* the number of samples along high_res_timestamp the slice carries: none,
\* half a chunk, one chunk, one chunk and a half
HighResSizes == { 0, HighResChunkSize \div 2, HighResChunkSize,
                  HighResChunkSize + HighResChunkSize \div 2 }

\* ds = self.source_ds.drop_dims(drop_dims): every dimension but
\* high_res_timestamp is dropped; source_ds was cut along timestamp only, so
\* the samples along high_res_timestamp are the n the slice came with
high_res_part(n) == n

InitAlign ==
    /\ log = State(Empty, Empty, Empty)
    /\ store = EmptyStore /\ hires = EmptyHires /\ setup = NoSetup
    /\ env = "align" /\ now = 0 /\ pc = "slice"
    /\ since_hint = NoHint /\ until_hint = NoHint
    /\ since = NoTime /\ until = NoTime
    /\ last_url = Empty /\ target_url = Empty
    /\ last_ds = None /\ source_ds = None
    /\ streamed = FALSE
    /\ attempt = 0 /\ result = NoResult
    /\ \E f \in {0, ChunkSize}, n \in 0 .. MaxSize :
         local_paths = << Slice(f, f + n - 1, Setting(f)) >>
    /\ \E h \in HighResSizes :
         hist = [high_res |-> h, called |-> {}, written |-> 0]

\* source_ds = xr.open_dataset(path) and the cut to the chunk size; a slice
\* left empty is skipped, any other becomes self.source_ds
OpenAligned ==
    /\ env = "align" /\ "align" \notin hist.called
    /\ LET sl == align(Head(local_paths)) IN
         source_ds' = IF Size(sl) = 0 THEN source_ds ELSE AsDataset(sl)
    /\ hist' = [hist EXCEPT !.called = @ \cup {"align"}]
    /\ UNCHANGED <<log, store, hires, setup, pc, now, since_hint, until_hint,
                   since, until, last_url, last_ds, target_url, local_paths,
                   streamed, attempt, result, env>>

\* add_high_res on the slice that was not skipped
CallAddHighRes ==
    /\ env = "align" /\ "align" \in hist.called
    /\ source_ds # None /\ "add_high_res" \notin hist.called
    /\ hist' = [hist EXCEPT !.called = @ \cup {"add_high_res"},
                            !.written = high_res_part(hist.high_res)]
    /\ UNCHANGED <<log, store, hires, setup, pc, now, driverVars, attempt,
                   result, env>>

NextAlign ==
    \/ OpenAligned
    \/ CallAddHighRes

SpecAlign == InitAlign /\ [][NextAlign]_vars

\* ------------------------------------------------------ upload_in_intervals
\* the largest label along dim of the datasets handed to upload_in_intervals
MaxTime == 6

\* the largest interval handed to upload_in_intervals
MaxInterval == 3

\* the labels of a set in increasing order: a dataset is time-ordered
RECURSIVE Ordered(_)
Ordered(S) ==
    IF S = {} THEN <<>>
    ELSE LET m == CHOOSE x \in S : \A y \in S : x <= y
         IN << m >> \o Ordered(S \ {m})

\* ds.sel({dim: slice(a, b)}): label-based, both ends included
sel(ds, a, b) == { t \in ds : a <= t /\ t <= b }

\* ds[dim].values[0] and ds[dim].values[-1]
FirstLabel(ds) == CHOOSE x \in ds : \A y \in ds : x <= y
LastLabel(ds) == CHOOSE x \in ds : \A y \in ds : y <= x

InitUpload ==
    /\ log = State(Empty, Empty, Empty)
    /\ store = EmptyStore /\ hires = EmptyHires /\ setup = NoSetup
    /\ env = "upload" /\ now = 0 /\ pc = "upload"
    /\ since_hint = NoHint /\ until_hint = NoHint
    /\ since = NoTime /\ until = NoTime
    /\ last_url = Empty /\ target_url = Empty
    /\ last_ds = None /\ source_ds = None
    /\ local_paths = <<>> /\ streamed = FALSE
    /\ attempt = 0 /\ result = NoResult
    /\ \E ds \in (SUBSET (0 .. MaxTime)) \ {{}}, interval \in 1 .. MaxInterval :
         hist = [ds |-> ds, interval |-> interval, at |-> "first",
                 current |-> 0, repo |-> <<>>, commits |-> 0]

\* first_slice = ds.sel({dim: slice(start, start + interval)}), to_icechunk
\* with mode_first, session.commit("initial chunk"); current = first_end
UploadFirst ==
    /\ env = "upload" /\ hist.at = "first"
    /\ LET start == FirstLabel(hist.ds)
           first_end == start + hist.interval
       IN hist' = [hist EXCEPT
                     !.repo = Ordered(sel(hist.ds, start, first_end)),
                     !.commits = 1,
                     !.current = first_end,
                     !.at = "loop"]
    /\ UNCHANGED <<log, store, hires, setup, pc, now, driverVars, attempt,
                   result, env>>

\* one turn of "while current < end": the chunk of [current, current +
\* interval] is appended and committed when it is not empty
UploadNext ==
    /\ env = "upload" /\ hist.at = "loop"
    /\ hist.current < LastLabel(hist.ds)
    /\ LET next_t == hist.current + hist.interval
           chunk == sel(hist.ds, hist.current, next_t)
       IN hist' = [hist EXCEPT
                     !.repo = IF chunk # {} THEN @ \o Ordered(chunk) ELSE @,
                     !.commits = IF chunk # {} THEN @ + 1 ELSE @,
                     !.current = next_t]
    /\ UNCHANGED <<log, store, hires, setup, pc, now, driverVars, attempt,
                   result, env>>

\* the loop test fails: upload_in_intervals returns
UploadReturn ==
    /\ env = "upload" /\ hist.at = "loop"
    /\ ~(hist.current < LastLabel(hist.ds))
    /\ hist' = [hist EXCEPT !.at = "done"]
    /\ UNCHANGED <<log, store, hires, setup, pc, now, driverVars, attempt,
                   result, env>>

NextUpload ==
    \/ UploadFirst
    \/ UploadNext
    \/ UploadReturn

SpecUpload == InitUpload /\ [][NextUpload]_vars

\* ----------------------------------------------------- AzuriteStorageClient
\* the number of calls made on the client
MaxCalls == 4

\* the blob names and the contents the calls are made with
BlobNames == { "a", "b" }
Contents == { "x", "y" }

\* what a call returns: True, False, None or a content
Ret(op, name, ret, before) ==
    [op |-> op, name |-> name, ret |-> ret, before |-> before]

InitBlob ==
    /\ log = State(Empty, Empty, Empty)
    /\ store = EmptyStore /\ hires = EmptyHires /\ setup = NoSetup
    /\ env = "blob" /\ now = 0 /\ pc = "client"
    /\ since_hint = NoHint /\ until_hint = NoHint
    /\ since = NoTime /\ until = NoTime
    /\ last_url = Empty /\ target_url = Empty
    /\ last_ds = None /\ source_ds = None
    /\ local_paths = <<>> /\ streamed = FALSE
    /\ attempt = 0 /\ result = NoResult
    /\ hist = [blobs |-> [b \in {} |-> "x"],
               last |-> [b \in BlobNames |-> "none"],
               content |-> [b \in BlobNames |-> "None"],
               call |-> Ret("init", "a", "None", [b \in {} |-> "x"]),
               calls |-> 0]

\* the frame of a call on the client
BlobFrame ==
    UNCHANGED <<log, store, hires, setup, pc, now, driverVars, attempt,
                result, env>>

\* upload_blob(blob_name, data): upload_blob(data, overwrite=True) returns
\* True; any exception is printed and answered with False
UploadBlob ==
    /\ env = "blob" /\ hist.calls < MaxCalls
    /\ \E b \in BlobNames, data \in Contents, fault \in BOOLEAN :
         hist' = IF fault
                 THEN [hist EXCEPT !.call = Ret("upload_blob", b, "False", hist.blobs),
                                   !.calls = @ + 1]
                 ELSE [hist EXCEPT
                         !.blobs = [n \in DOMAIN hist.blobs \cup {b} |->
                                      IF n = b THEN data ELSE hist.blobs[n]],
                         !.last[b] = "upload",
                         !.content[b] = data,
                         !.call = Ret("upload_blob", b, "True", hist.blobs),
                         !.calls = @ + 1]
    /\ BlobFrame

\* download_blob(blob_name): the decoded content; any exception (the blob is
\* absent, the service cannot be reached) is printed and answered with None
DownloadBlob ==
    /\ env = "blob" /\ hist.calls < MaxCalls
    /\ \E b \in BlobNames, fault \in BOOLEAN :
         hist' = [hist EXCEPT
                    !.call = Ret("download_blob", b,
                                 IF fault \/ b \notin DOMAIN hist.blobs
                                 THEN "None" ELSE hist.blobs[b],
                                 hist.blobs),
                    !.calls = @ + 1]
    /\ BlobFrame

\* delete_blob(blob_name): True after blob_client.delete_blob(); any exception
\* (the blob is absent, the service cannot be reached) is answered with False
DeleteBlob ==
    /\ env = "blob" /\ hist.calls < MaxCalls
    /\ \E b \in BlobNames, fault \in BOOLEAN :
         hist' = IF fault \/ b \notin DOMAIN hist.blobs
                 THEN [hist EXCEPT !.call = Ret("delete_blob", b, "False", hist.blobs),
                                   !.calls = @ + 1]
                 ELSE [hist EXCEPT
                         !.blobs = [n \in DOMAIN hist.blobs \ {b} |-> hist.blobs[n]],
                         !.last[b] = "delete",
                         !.call = Ret("delete_blob", b, "True", hist.blobs),
                         !.calls = @ + 1]
    /\ BlobFrame

\* blob_exists(blob_name): blob_client.exists(); any exception is answered
\* with False
BlobExists ==
    /\ env = "blob" /\ hist.calls < MaxCalls
    /\ \E b \in BlobNames, fault \in BOOLEAN :
         hist' = [hist EXCEPT
                    !.call = Ret("blob_exists", b,
                                 IF ~fault /\ b \in DOMAIN hist.blobs
                                 THEN "True" ELSE "False",
                                 hist.blobs),
                    !.calls = @ + 1]
    /\ BlobFrame

NextBlob ==
    \/ UploadBlob
    \/ DownloadBlob
    \/ DeleteBlob
    \/ BlobExists

SpecBlob == InitBlob /\ [][NextBlob]_vars

\* ---------------------------------------------------------- specifications
InitHist ==
    [lastOp |-> "init", pre |-> State(Empty, Empty, Empty),
     rec0 |-> State(Empty, Empty, Empty), store0 |-> EmptyStore,
     recOp |-> "init", recPre |-> State(Empty, Empty, Empty), delTries |-> 0, delFaults |-> 0, delOutcome |-> "none",
     prev |-> NoResult, lastRes |-> NoResult, crashes |-> 0, ops |-> 0,
     hrMode |-> "none", hrFailed |-> FALSE,
     exit |-> "none", exitPc |-> "none"]

InitProcess ==
    /\ hires = EmptyHires /\ setup = NoSetup
    /\ pc = "down"
    /\ since_hint = NoHint /\ until_hint = NoHint
    /\ since = NoTime /\ until = NoTime
    /\ last_url = Empty /\ last_ds = None /\ source_ds = None
    /\ target_url = Empty /\ local_paths = <<>> /\ streamed = FALSE
    /\ attempt = 0 /\ result = NoResult
    /\ hist = InitHist

Init ==
    /\ log = State(Empty, Empty, Empty)
    /\ store = EmptyStore
    /\ env = "any" /\ now = 0
    /\ InitProcess

Next ==
    \/ Start
    \/ DeleteAttempt
    \/ ValidatePenultimate
    \/ ValidateLast
    \/ ListFallback
    \/ LoadAdopted
    \/ Discover
    \/ Fetch
    \/ DropSmall
    \/ BeginAppend
    \/ BeginNew
    \/ WriteMain
    \/ WritePartial
    \/ AddHighRes
    \/ MaintainSetup
    \/ SetupPartial
    \/ Complete
    \/ Progress
    \/ Crash
    \/ TornSave

Spec == Init /\ [][Next]_vars

\* runs of stream() in which no remote call fails and the process is never
\* killed
InitLive ==
    /\ log = State(Empty, Empty, Empty)
    /\ store = EmptyStore
    /\ env = "live" /\ now \in {0, ChunkSize \div 2, ChunkSize}
    /\ InitProcess

NextLive ==
    \/ Start
    \/ ValidatePenultimate
    \/ ValidateLast
    \/ ListFallback
    \/ Discover
    \/ Fetch
    \/ DropSmall
    \/ BeginAppend
    \/ BeginNew
    \/ WriteMain
    \/ AddHighRes
    \/ MaintainSetup
    \/ Complete
    \/ Progress

\* the statements of one call of stream(): a running process takes its next
\* step; when a run is started is up to the caller
StreamStep ==
    \/ ValidatePenultimate
    \/ ValidateLast
    \/ ListFallback
    \/ Discover
    \/ Fetch
    \/ DropSmall
    \/ BeginAppend
    \/ BeginNew
    \/ WriteMain
    \/ AddHighRes
    \/ MaintainSetup
    \/ Complete
    \/ Progress

SpecLive == InitLive /\ [][NextLive]_vars /\ WF_vars(StreamStep)

\* the end-to-end scenario: no hints, no faults, one crash
InitE2E ==
    /\ log = State(Empty, Empty, Empty)
    /\ store = EmptyStore
    /\ env = "e2e" /\ now \in {0, ChunkSize \div 2, ChunkSize}
    /\ InitProcess

NextE2E ==
    \/ Start
    \/ DeleteAttempt
    \/ ValidatePenultimate
    \/ ValidateLast
    \/ ListFallback
    \/ Discover
    \/ Fetch
    \/ DropSmall
    \/ BeginAppend
    \/ BeginNew
    \/ WriteMain
    \/ AddHighRes
    \/ MaintainSetup
    \/ Complete
    \/ Progress
    \/ Crash

SpecE2E == InitE2E /\ [][NextE2E]_vars

\* a client of StreamingState alone, from every log file and store content
Objects == { Obj(<< <<0, ChunkSize - 1>> >>, Setting(0)), Void, Broken }

InitLog ==
    /\ log \in { State(l, p, i) : l \in Names \cup {Empty},
                                  p \in Names \cup {Empty},
                                  i \in Names \cup {Empty} }
    /\ \E D \in SUBSET Names : store \in [D -> Objects]
    /\ env = "log" /\ now = 0
    /\ InitProcess

NextLog ==
    \/ Construct
    \/ Recall
    \/ DeleteAttempt
    \/ ValidatePenultimate
    \/ ValidateLast
    \/ ListFallback
    \/ LoadAdopted
    \/ ApiNew
    \/ ApiAppend
    \/ ApiComplete
    \/ Crash

SpecLog == InitLog /\ [][NextLog]_vars

\* ------------------------- StreamingState built from any streaming_state.yaml
Keys == {"last_valid_target", "penultimate_valid_target", "incomplete_target"}
Targets == { <<0>>, <<ChunkSize>> }

\* the mappings a state file can hold: any of the three fields may be missing
Dicts == UNION { [K -> Targets \cup {Empty}] : K \in SUBSET Keys }
NoDict == [k \in {} |-> Empty]

\* the state file: not there, of size zero, not YAML, or a YAML mapping
File(kind, data) == [kind |-> kind, data |-> data]
Files ==
    { File(k, NoDict) : k \in {"missing", "empty", "unparsable"} }
       \cup { File("mapping", d) : d \in Dicts }

\* load_state(): yaml.safe_load(file) or {}; {} for a missing file and for a
\* YAMLError
load_state(file) == IF file.kind = "mapping" THEN file.data ELSE NoDict

\* the _state_data __init__ ends with: the default values replace an empty
\* load_state() and nothing else
state_data(file) ==
    IF DOMAIN load_state(file) = {} THEN State(Empty, Empty, Empty)
    ELSE load_state(file)

\* the keys a transition method reads with _state_data[key]
reads(op) ==
    CASE op = "on_deleted" -> {}
      [] op = "on_new_transaction" -> {"last_valid_target"}
      [] op = "on_append_transaction" ->
            {"last_valid_target", "penultimate_valid_target"}
      [] op = "on_complete_transaction" -> {"incomplete_target"}

\* _state_data[key] of a key the dict lacks
KeyError(op, d) == ~(reads(op) \subseteq DOMAIN d)

NoReturn == [pointer |-> Empty, ds |-> None]
Call(op, pre, target, raised, ret) ==
    [op |-> op, pre |-> pre, target |-> target, raised |-> raised, ret |-> ret]

InitState ==
    /\ \E f \in Files :
         /\ log = f.data
         /\ hist = [file |-> f, loaded |-> NoDict,
                    call |-> Call("none", NoDict, Empty, "no", NoReturn),
                    prev |-> "none", calls |-> 0]
    /\ \E D \in SUBSET Targets : store \in [D -> Objects]
    /\ hires = EmptyHires /\ setup = NoSetup
    /\ env = "state" /\ now = 0 /\ pc = "down"
    /\ since_hint = NoHint /\ until_hint = NoHint
    /\ since = NoTime /\ until = NoTime
    /\ last_url = Empty /\ target_url = Empty
    /\ last_ds = None /\ source_ds = None
    /\ local_paths = <<>> /\ streamed = FALSE
    /\ attempt = 0 /\ result = NoResult

StateFrame ==
    UNCHANGED <<store, hires, setup, now, driverVars, attempt, result, env>>

\* a transition method that reads a key the dict lacks raises before
\* save_state(): the file keeps its content
RaiseKeyError(op, target) ==
    /\ log' = log /\ pc' = "done"
    /\ hist' = [hist EXCEPT !.call = Call(op, log, target, "KeyError", NoReturn),
                            !.prev = hist.call.op,
                            !.calls = @ + 1]

Returns(op, target, ret) ==
    /\ pc' = pc
    /\ hist' = [hist EXCEPT !.call = Call(op, log, target, "no", ret),
                            !.prev = hist.call.op,
                            !.calls = @ + 1]

\* StreamingState(state_file_path, target_root): save_state() creates the
\* file when the default values were taken
NewStreamingState ==
    /\ env = "state" /\ pc = "down"
    /\ log' = state_data(hist.file)
    /\ pc' = "ready"
    /\ hist' = [hist EXCEPT !.loaded = log']
    /\ StateFrame

CallDeleted ==
    /\ env = "state" /\ pc = "ready" /\ hist.calls < MaxCalls
    /\ log' = on_deleted(log)
    /\ Returns("on_deleted", Empty, NoReturn)
    /\ StateFrame

CallNew ==
    /\ env = "state" /\ pc = "ready" /\ hist.calls < MaxCalls
    /\ \E t \in Targets :
         IF KeyError("on_new_transaction", log)
         THEN RaiseKeyError("on_new_transaction", t)
         ELSE /\ log' = on_new_transaction(log, t)
              /\ Returns("on_new_transaction", t, NoReturn)
    /\ StateFrame

CallAppend ==
    /\ env = "state" /\ pc = "ready" /\ hist.calls < MaxCalls
    /\ IF KeyError("on_append_transaction", log)
       THEN RaiseKeyError("on_append_transaction", Empty)
       ELSE /\ log' = on_append_transaction(log)
            /\ Returns("on_append_transaction", Empty, NoReturn)
    /\ StateFrame

\* on_complete_transaction(): the promotion is saved, then the promoted target
\* is read again; the exception of that read leaves the saved promotion
CallComplete ==
    /\ env = "state" /\ pc = "ready" /\ hist.calls < MaxCalls
    /\ IF KeyError("on_complete_transaction", log)
       THEN RaiseKeyError("on_complete_transaction", Empty)
       ELSE /\ log' = on_complete_transaction(log)
            /\ LET ds == load_validate_target_path(log'.last_valid_target, store)
               IN IF ds = Raise
                  THEN /\ pc' = "done"
                       /\ hist' = [hist EXCEPT
                                     !.call = Call("on_complete_transaction", log,
                                                   Empty, "Exception", NoReturn),
                                     !.prev = hist.call.op,
                                     !.calls = @ + 1]
                  ELSE Returns("on_complete_transaction", Empty,
                               [pointer |-> log'.last_valid_target, ds |-> ds])
    /\ StateFrame

NextState ==
    \/ NewStreamingState
    \/ CallDeleted
    \/ CallNew
    \/ CallAppend
    \/ CallComplete

SpecState == InitState /\ [][NextState]_vars

\* ------------------------------------------------------------- properties
\* the segments <<target, index>> of the readable targets of a store
SegsOf(st) ==
    UNION { { <<u, i>> : i \in 1 .. Len(st[u].segs) } : u \in DOMAIN st }
Seg(st, x) == st[x[1]].segs[x[2]]

\* no timestamp is stored twice
NoDup(st) ==
    \A x \in SegsOf(st), y \in SegsOf(st) :
        x # y => (Seg(st, x)[2] < Seg(st, y)[1] \/ Seg(st, y)[2] < Seg(st, x)[1])

\* every record of the store old is a record of the store st
Keeps(old, st) ==
    \A x \in SegsOf(old) : \E y \in SegsOf(st) :
        Seg(st, y)[1] <= Seg(old, x)[1] /\ Seg(old, x)[2] <= Seg(st, y)[2]

Valid(st, url) == url # Empty /\ Exists(st, url) /\ st[url].kind = "ok"

\* the running (or last) recovery started right after an intent `op` that was
\* written on a clean log, and no log mutation of a client followed
RecoversFrom(op) ==
    /\ hist.recOp = op
    /\ hist.recPre.incomplete_target = Empty
    /\ hist.rec0 = IF op = "new"
                   THEN on_new_transaction(hist.recPre, hist.rec0.incomplete_target)
                   ELSE on_append_transaction(hist.recPre)

Returned == pc = "discover" /\ hist.lastRes = result

\* C1: crash recovery of a new-target transaction: from a clean log with
\* last_valid_target = T1 (valid remotely), on_new_transaction(T2), no
\* completion, then a recovery whose delete does not end in an I/O fault: T2 is gone
\* from the store, the log is (T1, T1, ''), and the result is (true, T1).
C1_Case ==
    /\ Returned /\ RecoversFrom("new")
    /\ hist.delOutcome # "fault"
    /\ Valid(hist.store0, hist.recPre.last_valid_target)
    /\ hist.rec0.incomplete_target # hist.recPre.last_valid_target

C1_NewTransactionRecovery ==
    C1_Case =>
        LET T1 == hist.recPre.last_valid_target
            T2 == hist.rec0.incomplete_target IN
        /\ ~Exists(store, T2)
        /\ log = State(T1, T1, Empty)
        /\ result.available /\ result.pointer = T1 /\ result.ds.kind = "ds"

C1_Witness ==
    /\ C1_Case
    /\ Exists(hist.store0, hist.rec0.incomplete_target)
    /\ ~Exists(store, hist.rec0.incomplete_target)
    /\ result.pointer = hist.recPre.last_valid_target

\* C2: for every log (L, P, ''), on_append_transaction persists
\* last_valid_target = P and incomplete_target = L, and the recovery that
\* follows the crash removes no target but L and resumes from P: it reports
\* (true, P) with last_valid_target = P whenever P was a valid target.
C2_Case ==
    /\ Returned /\ RecoversFrom("append")
    /\ hist.delOutcome # "fault"

C2_AppendCrash ==
    /\ (hist.lastOp = "append" /\ hist.pre.incomplete_target = Empty) =>
          log = State(hist.pre.penultimate_valid_target,
                      hist.pre.penultimate_valid_target,
                      hist.pre.last_valid_target)
    /\ C2_Case =>
          LET L == hist.recPre.last_valid_target
              P == hist.recPre.penultimate_valid_target IN
          /\ L # Empty => ~Exists(store, L)
          /\ store = Remove(hist.store0, L)
          /\ Valid(hist.store0, P) =>
                (result.available /\ result.pointer = P /\ log.last_valid_target = P)

\* C3: the end-to-end scenario (cold start, a target created, appended to,
\* then a crash right after on_append_transaction, then a restart): recovery
\* reports the target the crash interrupted, unchanged, and when the restarted
\* run ends every record stored before the crash is stored exactly once.
C3_EndToEnd ==
    (env = "e2e" /\ hist.crashes = 1) =>
        /\ Returned =>
              /\ result.available
              /\ result.pointer = hist.recPre.last_valid_target
              /\ log.last_valid_target = hist.recPre.last_valid_target
              /\ store = hist.store0
        /\ pc = "done" => (NoDup(store) /\ Keeps(hist.store0, store))

\* C4: between two transactions (recovery returned, or an iteration
\* completed, or the run ended) no timestamp is stored more than once across
\* the remote targets.
C4_NoDuplicates ==
    pc \in {"discover", "stream", "slice", "done"} => NoDup(store)

\* C5: incomplete_target is non-empty only between an intent
\* (on_new_transaction / on_append_transaction) and the next completion or
\* deletion; it is empty after every completed iteration and after every
\* normal return of recovery.
C5_MutualExclusion ==
    /\ log.incomplete_target # Empty => hist.lastOp \in {"new", "append"}
    /\ pc \in {"discover", "stream", "slice", "done"} =>
          log.incomplete_target = Empty

C5_Witness ==
    /\ pc = "slice" /\ hist.lastOp = "complete" /\ streamed
    /\ hist.crashes > 0
    /\ log.incomplete_target = Empty
    /\ log.penultimate_valid_target # Empty

\* C6: when every attempt to delete the incomplete target fails with a fault
\* other than not-found, recovery raises out of the delete step and the
\* persisted incomplete_target stays as it was.
C6_FatalDelete ==
    (hist.delFaults = MaxAttempts /\ pc # "rec_delete") =>
        /\ pc = "down" /\ hist.exit = "raise" /\ hist.exitPc = "rec_delete"
        /\ log.incomplete_target # Empty
        /\ log = hist.rec0

\* C7: when the delete of the incomplete target ends in not-found, recovery
\* does not raise: it persists incomplete_target = '' with the other two
\* pointers unchanged and goes on to validate the penultimate target.
C7_NotFoundRecoverable ==
    /\ (pc = "rec_pen" /\ hist.delOutcome = "notfound") =>
          /\ log = State(hist.rec0.last_valid_target,
                         hist.rec0.penultimate_valid_target, Empty)
          /\ store = hist.store0
    /\ (hist.exit = "raise" /\ hist.exitPc = "rec_delete") =>
          hist.delOutcome # "notfound"

C7_Witness ==
    /\ pc = "rec_pen" /\ hist.delOutcome = "notfound"
    /\ hist.delTries = MaxAttempts /\ hist.delFaults = 0
    /\ hist.rec0.incomplete_target # Empty
    /\ ~Exists(store, hist.rec0.incomplete_target)
    /\ log.incomplete_target = Empty
    /\ log.last_valid_target # Empty

\* C8: a non-empty last_valid_target names a remote target that exists, is
\* readable, and is not the target being written or appended to.
C8_LastKnownGood ==
    log.last_valid_target # Empty =>
        /\ Valid(store, log.last_valid_target)
        /\ log.last_valid_target # log.incomplete_target

\* C9: a second initialize_and_validate_paths() with no log mutation in
\* between returns the same (available, pointer) as the first and leaves the
\* persisted log as it found it.
C9_Case == Returned /\ hist.prev # NoResult

C9_IdempotentRecovery ==
    C9_Case =>
        /\ result.available = hist.prev.available
        /\ result.pointer = hist.prev.pointer
        /\ log = hist.rec0

C9_Witness ==
    /\ C9_Case
    /\ result.available /\ result.pointer = hist.prev.pointer
    /\ hist.lastOp = "adopt"
    /\ log.penultimate_valid_target # Empty
    /\ log.last_valid_target # hist.pre.last_valid_target

\* C10: when recovery returns available = true, the pointer is the persisted
\* last_valid_target and the slice is a dataset that was read, never absent.
C10_ValidatedResult ==
    (Returned /\ result.available) =>
        /\ result.pointer = log.last_valid_target
        /\ result.ds.kind = "ds"
        /\ Valid(store, result.pointer)

\* C11: recovery returns available = false exactly when the last_valid_target
\* it started with cannot be validated (it is '' or does not open) and the
\* listing of the target root holds no candidate; the persisted
\* last_valid_target is then ''.
C11_ColdStart ==
    Returned =>
        /\ ~result.available <=>
              (~Valid(store, hist.rec0.last_valid_target) /\ DOMAIN store = {})
        /\ ~result.available =>
              (log.last_valid_target = Empty /\ result.pointer = Empty)

C11_Witness ==
    /\ Returned /\ ~result.available
    /\ hist.rec0.last_valid_target # Empty
    /\ hist.rec0.incomplete_target = Empty
    /\ log.last_valid_target = Empty
    /\ DOMAIN store = {}

\* the object u of st2 was written by the step from st1 to st2
Written(st1, st2, u) == u \in DOMAIN st2 /\ (u \notin DOMAIN st1 \/ st2[u] # st1[u])

\* the last of the segments appended to a target
LastSeg(segs) == segs[Len(segs)]

\* the order of the log mutations and the remote writes of one slice: a main
\* or high-frequency write or the setup maintenance happens under a persisted
\* intent for the target and leaves the log alone; the completion is persisted
\* after the three of them returned
C12_Ordering ==
    [][ /\ (\E u \in DOMAIN store' : Written(store, store', u)) =>
              /\ pc = "write" /\ target_url # Empty
              /\ log.incomplete_target = target_url
              /\ \A u \in DOMAIN store' : Written(store, store', u) => u = target_url
              /\ log' = log
        /\ (\E u \in DOMAIN hires' : Written(hires, hires', u)) =>
              /\ pc = "highres" /\ log.incomplete_target = target_url
              /\ log' = log
        /\ setup' # setup =>
              /\ pc = "setup" /\ log.incomplete_target = target_url
              /\ log' = log
        /\ (hist'.lastOp = "complete" /\ hist.lastOp # "complete") =>
              /\ pc = "complete"
              /\ log.incomplete_target = target_url
              /\ Valid(store, target_url)
              /\ LastSeg(store[target_url].segs) = <<source_ds.first, source_ds.last>>
              /\ Exists(hires, target_url)
              /\ LastSeg(hires[target_url]) = high_res_seg(Head(local_paths))
      ]_vars

\* C12: the intent is persisted before any remote write of the slice and the
\* completion after the main write, the high-frequency write and the setup
\* maintenance returned; hence in every persisted state (wherever a crash
\* stops the process) last_valid_target does not name the target whose write
\* is in flight.
C12_NoOverClaim ==
    /\ C12_Ordering
    /\ [](log.incomplete_target # Empty =>
              log.last_valid_target # log.incomplete_target)

\* C13: an error raised by the main write, the high-frequency write or the
\* setup maintenance leaves stream() (the run is over) and the persisted log
\* is the one the intent wrote: incomplete_target is the target that was being
\* written and nothing else changed.
C13_FatalLeavesLog ==
    (hist.exit = "raise" /\ hist.exitPc \in {"write", "highres", "setup"}) =>
        /\ pc = "down"
        /\ hist.lastOp \in {"new", "append"}
        /\ log.incomplete_target # Empty
        /\ log = IF hist.lastOp = "new"
                 THEN on_new_transaction(hist.pre, log.incomplete_target)
                 ELSE on_append_transaction(hist.pre)

C13_Witness ==
    /\ pc = "down" /\ hist.exit = "raise" /\ hist.exitPc = "highres"
    /\ hist.lastOp = "append"
    /\ log.incomplete_target = hist.pre.last_valid_target
    /\ Valid(store, log.incomplete_target)

\* the states a mutation method of StreamingState persists from the state s
Mutations(s) ==
    { on_deleted(s), on_append_transaction(s), on_complete_transaction(s) }
    \cup { on_new_transaction(s, TargetOf(sl)) : sl \in { local_paths[i] : i \in DOMAIN local_paths } }

\* C14: the log file a kill of the process leaves reads back as the complete
\* previous state or as the complete state the interrupted mutation was
\* writing, never as the all-empty default of an empty or partial file.
C14_AtomicPersistence ==
    [][ (pc' = "down" /\ hist'.exit = "crash") =>
            (log' = log \/ log' \in Mutations(log)) ]_vars

\* C15: when recovery reports a prior target whose last timestamp is t, the
\* discovered since is t + 1, unless the since hint is later than that, and
\* then it is the hint; in both cases since > t.
C15_SinceForward ==
    [][ (pc = "discover" /\ pc' = "stream" /\ result.available) =>
            LET t == result.ds.last IN
            /\ since' > t
            /\ (since_hint = NoHint \/ since_hint <= t + 1) => since' = t + 1
            /\ (since_hint # NoHint /\ since_hint > t + 1) => since' = since_hint
      ]_vars

\* a hint earlier than the data already stored was given and not followed
C15_Witness ==
    /\ pc = "stream" /\ hist.lastRes = result /\ result.available
    /\ since_hint # NoHint /\ since_hint <= result.ds.last
    /\ since = result.ds.last + 1

\* C16: when recovery reports no prior target, the discovered since is the
\* since hint when one was given and otherwise midnight of the current day.
C16_ColdSince ==
    [][ (pc = "discover" /\ pc' = "stream" /\ ~result.available) =>
            /\ since_hint # NoHint => since' = since_hint
            /\ since_hint = NoHint => since' = (now \div DayLen) * DayLen
      ]_vars

C16_Witness ==
    /\ pc = "stream" /\ hist.lastRes = result /\ ~result.available
    /\ since_hint = NoHint /\ now >= DayLen /\ since = DayLen

\* C17: after every discovery and every progress step until is the least of
\* the cutoff (midnight of the day of since, plus streaming_days_per_file
\* days, plus streaming_minutes minutes), the wall clock and the until hint;
\* so it exceeds neither the until hint nor the cutoff.
C17_UntilBounded ==
    pc \in {"stream", "slice", "write", "highres", "setup", "complete", "done"} =>
        LET cutoff == (since \div DayLen) * DayLen
                        + streaming_days_per_file * 24 * 60 * RecordsPerMinute
                        + streaming_minutes * RecordsPerMinute
        IN /\ until <= cutoff /\ until <= now /\ until <= until_hint
           /\ until \in {cutoff, now, until_hint}

\* the until hint is what bounds the window
C17_Witness ==
    /\ pc = "stream" /\ since < until
    /\ until = until_hint /\ until < now
    /\ until < (since \div DayLen) * DayLen + DayLen
                + streaming_minutes * RecordsPerMinute

\* C18: a window with since >= until is empty: the run ends without the
\* provider being asked for slices and without a transaction, so the provider
\* is asked, and a transaction is open, only in a window with since < until.
C18_EmptyWindow ==
    /\ pc = "stream" => since < until
    /\ pc \in {"write", "highres", "setup", "complete"} => since < until

\* C19: is_appendable(prior, new, keys) is true iff both datasets are present
\* and every key of keys is in the attrs of both with equal values; a missing
\* dataset, a missing key or a comparison that raises gives false.
C19_IsAppendable ==
    "is_appendable" \in hist.called =>
        /\ (last_ds = None \/ source_ds = None) => ~hist.appendable
        /\ (last_ds # None /\ source_ds # None) =>
              /\ (\E k \in hist.keys : k \notin DOMAIN last_ds.attr
                                       \/ k \notin DOMAIN source_ds.attr)
                    => ~hist.appendable
              /\ (\E k \in hist.keys :
                     /\ k \in DOMAIN last_ds.attr /\ k \in DOMAIN source_ds.attr
                     /\ "array" \in {last_ds.attr[k], source_ds.attr[k]})
                    => ~hist.appendable
              /\ hist.appendable <=>
                    \A k \in hist.keys :
                       /\ k \in DOMAIN last_ds.attr /\ k \in DOMAIN source_ds.attr
                       /\ "array" \notin {last_ds.attr[k], source_ds.attr[k]}
                       /\ last_ds.attr[k] = source_ds.attr[k]

\* the example: instrument A and settings id equal in both -> true
C19_Witness ==
    /\ "is_appendable" \in hist.called /\ hist.appendable
    /\ hist.keys = {"instrument", "settings_id"}
    /\ last_ds # None /\ source_ds # None
    /\ DOMAIN last_ds.attr = hist.keys /\ last_ds.attr = source_ds.attr
    /\ last_ds.attr["instrument"] = "A"
    /\ last_ds.first # source_ds.first

\* C20: is_within_timeframe(prior, new, max_timedelta) is true iff the first
\* timestamp of new is not later than midnight of the day of prior's first
\* timestamp plus max_timedelta; with one day, a prior starting at D 00:00
\* and a new starting at D+2 00:30 give false.
C20_IsWithinTimeframe ==
    ("is_within_timeframe" \in hist.called /\ last_ds # None /\ source_ds # None) =>
        /\ hist.within <=>
              source_ds.first <=
                 (last_ds.first \div DayLen) * DayLen + hist.max_timedelta
        /\ (last_ds.first = 0 /\ hist.max_timedelta = DayLen
              /\ source_ds.first = 2 * DayLen + 30 * RecordsPerMinute)
              => ~hist.within

\* a new dataset that starts exactly at the limit, after a prior that starts
\* in the course of a day: still within
C20_Witness ==
    /\ "is_within_timeframe" \in hist.called /\ last_ds # None /\ source_ds # None
    /\ hist.within
    /\ last_ds.first = ChunkSize /\ hist.max_timedelta = DayLen
    /\ source_ds.first = DayLen

\* C21: for every slice that is not dropped, the driver persists
\* on_append_transaction and writes to the last target iff is_appendable and
\* is_within_timeframe hold against the last known dataset; otherwise it
\* persists on_new_transaction with the target named after the slice; the
\* test is made for each slice, and with no last dataset the target is new.
C21_AppendOrNew ==
    [][ (pc = "slice" /\ pc' = "write") =>
            LET sl == Head(local_paths)
                ds == Dataset(sl.first, sl.last - (Size(sl) % ChunkSize), sl.attr)
                both == /\ is_appendable(last_ds, ds, significant_keys)
                        /\ is_within_timeframe(last_ds, ds,
                                               streaming_days_per_file * DayLen)
            IN /\ both => /\ log' = on_append_transaction(log)
                          /\ target_url' = last_url
               /\ ~both => /\ log' = on_new_transaction(log, <<sl.first>>)
                           /\ target_url' = <<sl.first>>
                           /\ target_url' # last_url
               /\ last_ds = None => ~both
      ]_vars

\* the second slice of a window starts a new target after the first one was
\* appended: the settings changed inside the day
C21_Witness ==
    /\ pc = "write" /\ hist.lastOp = "new" /\ streamed
    /\ last_ds # None /\ last_url # Empty
    /\ Len(store[last_url].segs) >= 2
    /\ ~is_appendable(last_ds, source_ds, significant_keys)
    /\ is_within_timeframe(last_ds, source_ds, streaming_days_per_file * DayLen)


\* C22: a slice of n records is cut to its first n - (n mod 100) records: the
\* leading records are kept, the trailing remainder is trimmed, the length
\* left is a multiple of the chunk size; 237 records leave 200, 50 leave none
C22_ChunkAlignment ==
    LET sl == Head(local_paths)
        n == Size(sl)
        a == align(sl)
    IN "align" \in hist.called =>
         /\ Size(a) = n - (n % ChunkSize)
         /\ Size(a) % ChunkSize = 0
         /\ a.first = sl.first /\ a.last = sl.first + (n - (n % ChunkSize)) - 1
         /\ a.attr = sl.attr
         /\ (n = 237 => Size(a) = 200)
         /\ (n = 50 => Size(a) = 0)
         /\ (Size(a) # 0 => source_ds = Dataset(a.first, a.last, a.attr))
         /\ (Size(a) = 0 => source_ds = None)

C22_Witness ==
    /\ "align" \in hist.called
    /\ Size(Head(local_paths)) = 237
    /\ source_ds # None /\ source_ds.last - source_ds.first + 1 = 200


\* C23: when the aligned length of the slice at hand is zero, the step the
\* driver takes (any step but the death of the process) only moves on to the
\* next slice: no intent is recorded, nothing is written remotely, the log,
\* the last-known dataset and the current slice stay as they were, and no
\* error leaves the loop
C23_DropWithoutEffects ==
    [][ ( /\ pc = "slice" /\ local_paths # <<>>
          /\ Size(align(Head(local_paths))) = 0
          /\ ~(hist'.crashes # hist.crashes /\ hist'.exit = "crash") )
        => /\ local_paths' = Tail(local_paths)
           /\ pc' = "slice"
           /\ UNCHANGED <<log, store, hires, setup, last_url, last_ds,
                          source_ds, target_url, streamed, since, until,
                          hist>> ]_vars

\* the window held fewer records than a chunk after a target was adopted,
\* and its only slice has been passed over
C23_Witness ==
    /\ pc = "slice" /\ local_paths = <<>> /\ ~streamed
    /\ to_file(since, until, now) # <<>>
    /\ last_ds # None /\ log.last_valid_target # Empty
    /\ hist.exit = "none"


\* C24: the high-frequency part written to the sibling is trimmed to a
\* multiple of its own chunk size (1000): of n samples along
\* high_res_timestamp the first n - (n mod 1000) are written
C24_HighResAligned ==
    "add_high_res" \in hist.called =>
        /\ hist.written % HighResChunkSize = 0
        /\ hist.written = hist.high_res - (hist.high_res % HighResChunkSize)


\* C25: no failure inside maintain_project_setup, the first creation of the
\* side-dataset included, leaves the loop: unless the process is killed, the
\* step after the high-frequency write goes on to the completion of the
\* transaction with the log as the intent left it
C25_SetupNeverAborts ==
    [][ (pc = "setup" /\ ~(pc' = "down" /\ hist'.exit = "crash"))
        => (pc' = "complete" /\ log' = log) ]_vars


\* C26: the entries of the setup side-dataset only grow: no step removes an
\* entry it held, a readable side-dataset is changed by merging the entries
\* of the slice into it, and it is created from the slice alone only when
\* there is none
C26_SetupAppendOnly ==
    [][ setup' # setup =>
          /\ setup.entries \subseteq setup'.entries
          /\ (setup.kind = "ok" /\ setup'.kind = "ok") =>
                setup'.entries \subseteq
                    setup.entries \cup setup_entries(source_ds)
          /\ setup' = SetupOf(setup_entries(source_ds)) =>
                \/ setup.kind = "none"
                \/ setup.entries \subseteq setup_entries(source_ds)
      ]_vars


\* C27: add_high_res first tries to append the high-frequency data of the
\* slice to the sibling of the target and writes in create mode only when
\* that attempt failed: a sibling that does not exist yet is created with the
\* data of the slice, an existing one whose append works gets them appended,
\* and no other sibling is touched
C27_HighResProtocol ==
    [][ (pc = "highres" /\ pc' = "setup") =>
          LET seg == high_res_seg(Head(local_paths)) IN
          /\ hist'.hrMode \in {"append", "create"}
          /\ hist'.hrMode = "append" =>
                /\ ~hist'.hrFailed /\ Exists(hires, target_url)
                /\ hires'[target_url] = hires[target_url] \o << seg >>
          /\ hist'.hrMode = "create" =>
                /\ hist'.hrFailed
                /\ hires'[target_url] = << seg >>
          /\ ~Exists(hires, target_url) => hist'.hrMode = "create"
          /\ DOMAIN hires' = DOMAIN hires \cup {target_url}
          /\ \A u \in DOMAIN hires : u # target_url => hires'[u] = hires[u]
      ]_vars

\* a sibling created with the first slice of its target and appended to with
\* a later one
C27_Witness ==
    /\ pc = "setup" /\ hist.hrMode = "append"
    /\ Exists(hires, target_url) /\ Len(hires[target_url]) >= 2
    /\ hires[target_url][1][1] = target_url[1]


\* C28: when the slices of a window are used up, the next since is the last
\* timestamp of the last written (aligned) slice + 1 ms if a slice was
\* written, and the old since + streaming_days_per_file days if none was;
\* until is then recomputed from the new since
C28_WindowProgression ==
    [][ (pc = "slice" /\ local_paths = <<>> /\ pc' \in {"stream", "done"}) =>
          /\ streamed =>
                /\ Valid(store, target_url)
                /\ LastSeg(store[target_url].segs) =
                       << source_ds.first, source_ds.last >>
                /\ Size(source_ds) % ChunkSize = 0
                /\ since' = source_ds.last + 1
          /\ ~streamed => since' = since + streaming_days_per_file * DayLen
          /\ until' = Min(Min(Midnight(since') + streaming_days_per_file * DayLen
                                + streaming_minutes * RecordsPerMinute, now),
                          until_hint)
          /\ (pc' = "done") = (since' >= until')
      ]_vars

\* the driver is about to fetch the window that starts right after the
\* slice it wrote in the window before
C28_Witness ==
    /\ pc = "stream" /\ source_ds # None /\ ~streamed
    /\ since = source_ds.last + 1
    /\ since < until
    /\ \E u \in DOMAIN store :
          /\ Valid(store, u)
          /\ LastSeg(store[u].segs) = << source_ds.first, source_ds.last >>


\* C29: with a provider that returns records of [since, until) only and no
\* fatal error, every _progress step moves since strictly forward while until
\* stays at or below the until hint fixed at discovery, so a stream() that
\* entered its loop reaches since >= until and returns
C29_Terminates ==
    /\ [][ (pc = "slice" /\ local_paths = <<>> /\ pc' \in {"stream", "done"}) =>
              /\ since' > since
              /\ until_hint' = until_hint
              /\ until' <= until_hint
              /\ (pc' = "done") = (since' >= until') ]_vars
    /\ [][ (pc = "stream" /\ pc' = "slice") =>
              \A i \in 1 .. Len(local_paths') :
                 /\ since <= local_paths'[i].first
                 /\ local_paths'[i].last < until ]_vars
    /\ (pc = "stream") ~> (pc = "done" /\ since >= until)

\* a run that wrote a slice, went on to a window too short for a chunk, and
\* returned
C29_Witness ==
    /\ pc = "done" /\ since >= until
    /\ source_ds # None
    /\ since = source_ds.last + 1 + streaming_days_per_file * DayLen
    /\ Exists(store, last_url)


\* C30: after upload_in_intervals(repo, ds, dim, interval) the repository
\* holds along dim as many records as ds, each record of ds once and in
\* order, written with one commit for the first interval and one for every
\* later interval that holds a record
C30_EveryRecordOnce ==
    hist.at = "done" =>
        LET start == FirstLabel(hist.ds)
            i == hist.interval
            later == { k \in 1 .. MaxTime :
                         \E t \in hist.ds : /\ start + k * i < t
                                            /\ t <= start + (k + 1) * i }
        IN /\ Len(hist.repo) = Cardinality(hist.ds)
           /\ hist.repo = Ordered(hist.ds)
           /\ hist.commits = 1 + Cardinality(later)


\* C31: the blob client is a last-write-wins map: blob_exists(b) answers True
\* exactly when the last successful operation on b was an upload,
\* download_blob(b) answers the content uploaded last, or None when b is
\* absent, and delete_blob on an absent blob answers False and changes no blob
C31_LastWriteWins ==
    LET c == hist.call
        b == c.name
    IN /\ c.op = "blob_exists" =>
             (c.ret = "True") = (hist.last[b] = "upload")
       /\ c.op = "download_blob" =>
             c.ret = (IF hist.last[b] = "upload" THEN hist.content[b] ELSE "None")
       /\ (c.op = "delete_blob" /\ b \notin DOMAIN c.before) =>
             (c.ret = "False" /\ hist.blobs = c.before)


\* C32: in every log state the driver persists, through any interleaving of
\* new, append and complete transactions, kills and recoveries, a non-empty
\* incomplete_target differs from last_valid_target
C32_ProtectedPointer ==
    log.incomplete_target # Empty =>
        log.incomplete_target # log.last_valid_target


\* C33: a recovery that started with incomplete_target = X (non-empty) and
\* returns normally leaves no object X in the store, and the step that clears
\* incomplete_target in the log (on_deleted) is never taken while X is still
\* stored
C33_NoOrphan ==
    /\ [][ (pc = "rec_delete" /\ log.incomplete_target # Empty
                              /\ log'.incomplete_target = Empty)
           => ~Exists(store', log.incomplete_target) ]_vars
    /\ []( (Returned /\ hist.rec0.incomplete_target # Empty)
           => ~Exists(store, hist.rec0.incomplete_target) )


\* the record of timestamp t is held by some readable target of the store
Stored(st, t) ==
    \E x \in SegsOf(st) : Seg(st, x)[1] <= t /\ t <= Seg(st, x)[2]

\* C34: a record that was fetched but not written (cut off the tail of a
\* slice by the alignment, or part of a slice skipped as smaller than a
\* chunk) stays ahead of since: when a window in which a slice was written is
\* left, no record fetched for it and left unwritten lies before the new
\* since, where no later window or run fetches it again
C34_DeferredNotLost ==
    [][ (pc = "slice" /\ local_paths = <<>> /\ pc' \in {"stream", "done"}
                      /\ streamed) =>
          LET fetched == to_file(since, until, now) IN
          \A i \in 1 .. Len(fetched) :
             \A t \in (align(fetched[i]).last + 1) .. fetched[i].last :
                t < since' => Stored(store, t)
      ]_vars


\* the step is a call of the transition method op that did not stop at a
\* missing key
Called(op) ==
    /\ env = "state" /\ hist'.calls = hist.calls + 1
    /\ hist'.call.op = op /\ hist'.call.raised # "KeyError"

\* C35: on_new_transaction(target) sets penultimate_valid_target to the
\* previous last_valid_target and incomplete_target to target, leaves
\* last_valid_target as it was and saves the state; an
\* on_complete_transaction that follows it leaves the state
\* (last = target, penultimate = previous last, incomplete = "")
C35_NewTransactionFrame ==
    /\ [][ Called("on_new_transaction") =>
             /\ log'.last_valid_target = log.last_valid_target
             /\ log'.penultimate_valid_target = log.last_valid_target
             /\ log'.incomplete_target = hist'.call.target
             /\ DOMAIN log' = Keys ]_vars
    /\ [][ (Called("on_complete_transaction")
              /\ hist.call.op = "on_new_transaction") =>
             log' = State(hist.call.target,
                          hist.call.pre.last_valid_target, Empty) ]_vars

C35_Witness ==
    /\ env = "state" /\ hist.call.op = "on_complete_transaction"
    /\ hist.prev = "on_new_transaction" /\ hist.call.raised = "no"
    /\ log.incomplete_target = Empty
    /\ log.penultimate_valid_target # Empty
    /\ log.last_valid_target = hist.call.pre.incomplete_target
    /\ log.last_valid_target # log.penultimate_valid_target

\* C36: on_complete_transaction sets last_valid_target to the incomplete
\* target, clears incomplete_target, leaves penultimate_valid_target as it
\* was and saves this state before it reads the promoted target again (the
\* saved state stays when that read raises); it returns the promoted pointer
\* with the slice read from it; after on_append_transaction it puts
\* last_valid_target back to its value before the append
C36_CompletePromotes ==
    [][ Called("on_complete_transaction") =>
          /\ log'.last_valid_target = log.incomplete_target
          /\ log'.incomplete_target = Empty
          /\ \A k \in DOMAIN log \ {"last_valid_target", "incomplete_target"} :
                log'[k] = log[k]
          /\ hist'.call.raised = "no" =>
                /\ hist'.call.ret.pointer = log.incomplete_target
                /\ hist'.call.ret.ds =
                      load_validate_target_path(log.incomplete_target, store)
          /\ hist'.call.raised = "Exception" =>
                (Exists(store, log.incomplete_target)
                   /\ store[log.incomplete_target].kind = "broken")
          /\ hist.call.op = "on_append_transaction" =>
                log'.last_valid_target = hist.call.pre.last_valid_target
      ]_vars

C36_Witness ==
    /\ env = "state" /\ hist.call.op = "on_complete_transaction"
    /\ hist.prev = "on_append_transaction" /\ hist.call.raised = "no"
    /\ hist.call.ret.ds.kind = "ds"
    /\ hist.call.ret.pointer = log.last_valid_target
    /\ log.last_valid_target # log.penultimate_valid_target
    /\ log.incomplete_target = Empty

\* C40: a StreamingState built from a state file that is missing, empty,
\* unparsable or without some of the three fields has exactly the three
\* keys, reads every field the file lacks as the empty string, and none of
\* its transition methods fails on a missing key afterwards
C40_LogFileDefaults ==
    (env = "state" /\ pc # "down") =>
       /\ DOMAIN hist.loaded = Keys
       /\ \A k \in Keys \ DOMAIN load_state(hist.file) :
             k \in DOMAIN hist.loaded /\ hist.loaded[k] = Empty
       /\ hist.call.raised # "KeyError"


\* the step of the recovery at pc is not the end of the process by a kill or
\* by a store that cannot be reached: ds is what the store holds for the url
Reachable(ds) ==
    /\ hist'.exit # "crash"
    /\ ~(ds = None /\ hist'.exit = "raise")

\* C37: when penultimate_valid_target is set and cannot be validated (the
\* target is missing, empty, or cannot be opened), the recovery does not stop
\* there: it goes on to validate last_valid_target, and the check of the
\* penultimate target changes neither last_valid_target nor
\* penultimate_valid_target
C37_SoftPenultimate ==
    [][ (pc = "rec_pen" /\ log.penultimate_valid_target # Empty
           /\ load_validate_target_path(log.penultimate_valid_target, store)
                 \in {None, Raise}
           /\ Reachable(load_validate_target_path(log.penultimate_valid_target,
                                                  store))) =>
          /\ pc' = "rec_last"
          /\ log'.last_valid_target = log.last_valid_target
          /\ log'.penultimate_valid_target = log.penultimate_valid_target
      ]_vars


\* C39: a call of add_high_res never removes a record from the '_high_res'
\* sibling of its target, also when its append attempt fails although the
\* sibling exists: what the sibling held before the call it holds after it
C39_HighResKept ==
    [][ (pc = "highres" /\ Exists(hires, target_url)) =>
          /\ Exists(hires', target_url)
          /\ Len(hires'[target_url]) >= Len(hires[target_url])
          /\ \A i \in 1 .. Len(hires[target_url]) :
                hires'[target_url][i] = hires[target_url][i]
      ]_vars

====
